---- MODULE Spec2Model ----
(***************************************************************************)
(* Model of denoiser/enhance.py: the enhancement run (enhance), its        *)
(* dataset selection (get_dataset), the worker pool it drives              *)
(* (ProcessPoolExecutor), and the output path planning of save_wavs.       *)
(*                                                                         *)
(* Paths are Python strings, modelled as sequences of one-character        *)
(* strings, so that os.path's functions are computed character by          *)
(* character as posixpath computes them.                                   *)
(***************************************************************************)
EXTENDS Integers, Sequences, FiniteSets, TLC

VARIABLES
    entry,      \* "cli": run through __main__ and the parser; "api": enhance(args) called directly
    args,       \* the configuration: device, num_workers, noisy_dir, noisy_json ("" is unset)
    world,      \* number of participants of the distributed run (1: not distributed)
    jsonFiles,  \* the file list the manifest noisy_json holds
    dirFiles,   \* the file list find_audio_files(noisy_dir) returns
    pc,         \* pc[r]: where participant r is in main/enhance
    dset,       \* dset[r]: get_dataset's result: None, or the file list
    warned,     \* warned[r]: logger.warning was called by get_dataset
    idx,        \* idx[r]: number of items the for loop has taken from the loader
    cur,        \* cur[r]: the inline item's stage: "none", "estimate", "save"
    pendings,   \* pendings[r]: the list of futures, each named by its item's index
    job,        \* job[r][i]: state of the job of item i in r's pool
    joined,     \* joined[r]: number of futures whose result() returned
    raised,     \* raised[r]: the exception that left enhance, or NoError
    arrived,    \* the participants that have entered distrib.barrier()
    dirs,       \* the directories that exist (normalised paths)
    disk,       \* the output files: normalised path -> the input file it was estimated from
    createdBy,  \* the participants whose makedirs call created out_dir
    earlyWrite, \* some save_wavs call began while out_dir did not exist
    plan        \* the record of the specifications of one function (SpecPath, SpecWrite)

vars == <<entry, args, world, jsonFiles, dirFiles, pc, dset, warned, idx, cur,
          pendings, job, joined, raised, arrived, dirs, disk, createdBy, earlyWrite, plan>>

-----------------------------------------------------------------------------
(* Bounds *)

\* longest file list of a run
MaxItems == 3
\* largest num_workers
MaxWorkers == 2
\* longest path tail drawn for the path planning specification
MaxTail == 3
\* longest waveform drawn for write, in samples
MaxSamples == 2
\* largest sample magnitude drawn for write, in steps
MaxAmp == 4
\* sample steps per unit of amplitude: a sample s stands for the amplitude s / Resolution
Resolution == 2

-----------------------------------------------------------------------------
(* Python strings and os.path (posixpath) *)

SEP == "/"
DOT == "."
WAV == <<".", "w", "a", "v">>

\* str.rfind(c): the last index holding c (1-based), 0 when there is none
RFind(s, c) ==
    LET I == {i \in 1..Len(s) : s[i] = c}
    IN  IF I = {} THEN 0 ELSE CHOOSE i \in I : \A j \in I : j <= i

\* str.find(c)
Find(s, c) ==
    LET I == {i \in 1..Len(s) : s[i] = c}
    IN  IF I = {} THEN 0 ELSE CHOOSE i \in I : \A j \in I : i <= j

\* s[i:] with i 1-based
From(s, i) == IF i > Len(s) THEN <<>> ELSE SubSeq(s, i, Len(s))

\* str.split(c): the pieces between the occurrences of c
RECURSIVE SplitOn(_, _)
SplitOn(s, c) ==
    LET i == Find(s, c)
    IN  IF i = 0 THEN <<s>>
        ELSE <<SubSeq(s, 1, i - 1)>> \o SplitOn(From(s, i + 1), c)

\* sep.join(comps)
RECURSIVE JoinOn(_)
JoinOn(comps) ==
    IF comps = <<>> THEN <<>>
    ELSE IF Len(comps) = 1 THEN comps[1]
    ELSE comps[1] \o <<SEP>> \o JoinOn(Tail(comps))

\* posixpath.normpath's loop over the components, for an absolute path
RECURSIVE NormComps(_, _)
NormComps(comps, acc) ==
    IF comps = <<>> THEN acc
    ELSE LET c == Head(comps)
         IN  IF c = <<>> \/ c = <<DOT>> THEN NormComps(Tail(comps), acc)
             ELSE IF c = <<DOT, DOT>>
                  THEN NormComps(Tail(comps),
                                 IF acc = <<>> THEN acc ELSE SubSeq(acc, 1, Len(acc) - 1))
                  ELSE NormComps(Tail(comps), Append(acc, c))

\* the components of abspath(p), p absolute
AbsComps(p) == NormComps(SplitOn(p, SEP), <<>>)

\* posixpath.normpath of an absolute path
normpath(p) == <<SEP>> \o JoinOn(AbsComps(p))

\* length of the common prefix of two component lists
RECURSIVE CommonLen(_, _)
CommonLen(a, b) ==
    IF a = <<>> \/ b = <<>> \/ Head(a) # Head(b) THEN 0
    ELSE 1 + CommonLen(Tail(a), Tail(b))

\* posixpath.relpath(path, start)
relpath(path, start) ==
    LET start_list == AbsComps(start)
        path_list == AbsComps(path)
        i == CommonLen(start_list, path_list)
        rel_list == [k \in 1..(Len(start_list) - i) |-> <<DOT, DOT>>]
                    \o From(path_list, i + 1)
    IN  IF rel_list = <<>> THEN <<DOT>> ELSE JoinOn(rel_list)

\* posixpath.join(a, b)
join(a, b) ==
    IF b # <<>> /\ b[1] = SEP THEN b
    ELSE IF a = <<>> \/ a[Len(a)] = SEP THEN a \o b
    ELSE a \o <<SEP>> \o b

\* posixpath.basename
basename(p) == From(p, RFind(p, SEP) + 1)

\* str.rstrip('/')
RECURSIVE RStripSep(_)
RStripSep(s) ==
    IF s # <<>> /\ s[Len(s)] = SEP THEN RStripSep(SubSeq(s, 1, Len(s) - 1)) ELSE s

\* posixpath.dirname
dirname(p) ==
    LET head == SubSeq(p, 1, RFind(p, SEP))
    IN  IF head # <<>> /\ \E k \in 1..Len(head) : head[k] # SEP
        THEN RStripSep(head) ELSE head

\* a mutant of splitext: cuts at the last dot wherever it stands in the name
splitext_lastdot(p) ==
    LET dotIndex == RFind(p, DOT)
    IN  IF dotIndex > RFind(p, SEP)
        THEN <<SubSeq(p, 1, dotIndex - 1), From(p, dotIndex)>>
        ELSE <<p, <<>>>>

\* posixpath.splitext (genericpath._splitext): the extension starts at the last
\* dot of the last component, unless only dots precede it in that component
splitext(p) ==
    LET sepIndex == RFind(p, SEP)
        dotIndex == RFind(p, DOT)
    IN  IF dotIndex > sepIndex
           /\ \E k \in (sepIndex + 1)..(dotIndex - 1) : p[k] # DOT
        THEN <<SubSeq(p, 1, dotIndex - 1), From(p, dotIndex)>>
        ELSE <<p, <<>>>>

\* str.rsplit(".", 1)
rsplit1(s) ==
    LET i == RFind(s, DOT)
    IN  IF i = 0 THEN <<s>> ELSE <<SubSeq(s, 1, i - 1), From(s, i + 1)>>

\* the directories os.makedirs(p) visits: p and every leading part of it, each
\* resolved to the directory it names
Ancestors(p) ==
    LET c == SelectSeq(SplitOn(p, SEP), LAMBDA x : x # <<>>)
    IN  {<<SEP>> \o JoinOn(NormComps(SubSeq(c, 1, k), <<>>)) : k \in 0..Len(c)}

\* os.makedirs(p, exist_ok=True) on the set d of existing directories
makedirs(d, p) == d \cup Ancestors(p)

-----------------------------------------------------------------------------
(* save_wavs: the output path of one file *)

\* a mutant of OutputPath: the basename rule in both modes
OutputPath_basename(filename, out_dir, input_root) ==
    join(out_dir, rsplit1(basename(filename))[1] \o WAV)

\* a mutant of OutputPath: the relative path is not taken, the file name is joined as it is
OutputPath_norel(filename, out_dir, input_root) ==
    IF input_root # <<>>
    THEN splitext(join(out_dir, filename))[1] \o WAV
    ELSE join(out_dir, rsplit1(basename(filename))[1] \o WAV)

\* the path save_wavs writes the estimate of filename to; input_root <<>> is None
OutputPath(filename, out_dir, input_root) ==
    IF input_root # <<>>
    THEN splitext(join(out_dir, relpath(filename, input_root)))[1] \o WAV
    ELSE join(out_dir, rsplit1(basename(filename))[1] \o WAV)

\* the directory save_wavs creates before writing: none (<<>>) without input_root
OutputMkdir(filename, out_dir, input_root) ==
    IF input_root # <<>>
    THEN dirname(OutputPath(filename, out_dir, input_root))
    ELSE <<>>

-----------------------------------------------------------------------------
(* The configuration and the files of a run *)

None == <<>>
Root == <<"/", "r">>
Manifest == <<"/", "m">>
OutDir == <<"/", "o">>

FA == <<"/", "r", "/", "a", ".", "w">>
FB == <<"/", "r", "/", "a", ".", "f">>
FC == <<"/", "r", "/", "d", "/", "a", ".", "w">>
FX == <<"/", "x", "/", "b", ".", "w">>

\* what find_audio_files(Root) may list, and what a manifest may list
DirCandidates == {FA, FB, FC}
JsonCandidates == {FA, FC, FX}

\* the lists of at most n distinct files of S
Lists(S, n) ==
    {q \in UNION {[1..k -> S] : k \in 0..n} : \A i, j \in 1..Len(q) : i # j => q[i] # q[j]}

Ranks == 0..(world - 1)

NoError == [src |-> "none", item |-> 0, kind |-> "none"]

\* a job is "none" (not submitted), "queued", "running", "estimated", or one of:
Finished == {"done", "failed_estimate", "failed_save"}
Failed == {"failed_estimate", "failed_save"}

-----------------------------------------------------------------------------
(* Decisions of the code *)

\* the parser's mutually exclusive group: parse_args rejects both options together
ParserAccepts(a) == ~(a.noisy_dir # None /\ a.noisy_json # None)

\* a mutant of GetDataset: the directory takes precedence and nothing is skipped
GetDataset_dirfirst(a, jf, df) ==
    IF a.noisy_dir # None THEN [isNone |-> FALSE, files |-> df]
    ELSE [isNone |-> FALSE, files |-> jf]

\* get_dataset: the manifest first, then the directory, else None after a warning
GetDataset(a, jf, df) ==
    IF a.noisy_json # None THEN [isNone |-> FALSE, files |-> jf]
    ELSE IF a.noisy_dir # None THEN [isNone |-> FALSE, files |-> df]
    ELSE [isNone |-> TRUE, files |-> <<>>]

\* a mutant of IsCoordinator: every participant creates out_dir
IsCoordinator_all(r) == TRUE

\* distrib.rank == 0
IsCoordinator(r) == r = 0

\* a mutant of UsePool: either condition is enough
UsePool_or(a) == a.device = "cpu" \/ a.num_workers > 1

\* the dispatch condition of the for loop
UsePool(a) == a.device = "cpu" /\ a.num_workers > 1

\* input_root as _estimate_and_save computes it for a job; args, a namespace of
\* the parser, always has the attribute noisy_dir
InputRoot(a) == IF a.noisy_dir # None THEN a.noisy_dir ELSE None

\* a mutant of InputRootInline: the inline branch passes no input_root
InputRootInline_none(a) == None

\* input_root as the inline branch of the loop computes it
InputRootInline(a) == IF a.noisy_dir # None THEN a.noisy_dir ELSE None

\* distrib.loader(dset, batch_size=1): participant r's share of the files, in order
Loader(files, r, w) ==
    LET mine == {i \in 1..Len(files) : (i - 1) % w = r}
    IN  [k \in 1..Cardinality(mine) |-> files[(k - 1) * w + r + 1]]

Items(r) == Loader(dset[r].files, r, world)

\* the jobs of r that hold a worker process
Busy(r) == {i \in DOMAIN job[r] : job[r][i] \in {"running", "estimated"}}

\* the jobs of r not yet finished
Unfinished(r) == {i \in DOMAIN job[r] : job[r][i] \in {"queued", "running", "estimated"}}

-----------------------------------------------------------------------------
(* Initial states *)

Configs ==
    [device : {"cpu", "cuda"}, num_workers : 1..MaxWorkers,
     noisy_dir : {None, Root}, noisy_json : {None, Manifest}]

InitRun(w) ==
    /\ entry \in {"cli", "api"}
    /\ args \in Configs
    /\ world = w
    /\ jsonFiles \in (IF args.noisy_json = None THEN {<<>>} ELSE Lists(JsonCandidates, MaxItems))
    /\ dirFiles \in (IF args.noisy_dir = None THEN {<<>>} ELSE Lists(DirCandidates, MaxItems))
    /\ Len(jsonFiles) + Len(dirFiles) <= MaxItems
    /\ pc = [r \in Ranks |-> IF entry = "cli" THEN "main" ELSE "enhance"]
    /\ dset = [r \in Ranks |-> [isNone |-> TRUE, files |-> <<>>]]
    /\ warned = [r \in Ranks |-> FALSE]
    /\ idx = [r \in Ranks |-> 0]
    /\ cur = [r \in Ranks |-> "none"]
    /\ pendings = [r \in Ranks |-> <<>>]
    /\ job = [r \in Ranks |-> <<>>]
    /\ joined = [r \in Ranks |-> 0]
    /\ raised = [r \in Ranks |-> NoError]
    /\ arrived = {}
    /\ dirs = {<<SEP>>, Root, <<"/", "r", "/", "d">>, <<"/", "x">>}
    /\ disk = <<>>
    /\ createdBy = {}
    /\ earlyWrite = FALSE
    /\ plan = <<>>

Init == InitRun(1)

-----------------------------------------------------------------------------
(* __main__ and enhance, up to the loop *)

\* __main__: parser.parse_args() exits with a usage error when the group is violated
ParseArgs(r) ==
    /\ pc[r] = "main"
    /\ pc' = [pc EXCEPT ![r] = IF ParserAccepts(args) THEN "enhance" ELSE "usage_error"]
    /\ UNCHANGED <<entry, args, world, jsonFiles, dirFiles, dset, warned, idx, cur, pendings,
                   job, joined, raised, arrived, dirs, disk, createdBy, earlyWrite, plan>>

\* enhance: dset = get_dataset(...); if dset is None: return
LoadDataset(r) ==
    /\ pc[r] = "enhance"
    /\ LET d == GetDataset(args, jsonFiles, dirFiles)
       IN  /\ dset' = [dset EXCEPT ![r] = d]
           /\ warned' = [warned EXCEPT ![r] = d.isNone]
           /\ pc' = [pc EXCEPT ![r] = IF d.isNone THEN "done" ELSE "mkdir"]
    /\ UNCHANGED <<entry, args, world, jsonFiles, dirFiles, idx, cur, pendings,
                   job, joined, raised, arrived, dirs, disk, createdBy, earlyWrite, plan>>

\* enhance: if distrib.rank == 0: os.makedirs(out_dir, exist_ok=True)
MakeOutDir(r) ==
    /\ pc[r] = "mkdir"
    /\ IF IsCoordinator(r)
       THEN /\ dirs' = makedirs(dirs, OutDir)
            /\ createdBy' = IF OutDir \in dirs THEN createdBy ELSE createdBy \cup {r}
       ELSE UNCHANGED <<dirs, createdBy>>
    /\ pc' = [pc EXCEPT ![r] = "barrier"]
    /\ UNCHANGED <<entry, args, world, jsonFiles, dirFiles, dset, warned, idx, cur, pendings,
                   job, joined, raised, arrived, disk, earlyWrite, plan>>

\* distrib.barrier(): the participant enters the barrier
BarrierArrive(r) ==
    /\ pc[r] = "barrier"
    /\ arrived' = arrived \cup {r}
    /\ pc' = [pc EXCEPT ![r] = "waiting"]
    /\ UNCHANGED <<entry, args, world, jsonFiles, dirFiles, dset, warned, idx, cur, pendings,
                   job, joined, raised, dirs, disk, createdBy, earlyWrite, plan>>

\* distrib.barrier() returns once every participant has entered it; the pool and
\* the pending list are created, and one job slot per item of the loader
BarrierPass(r) ==
    /\ pc[r] = "waiting"
    /\ arrived = Ranks
    /\ pc' = [pc EXCEPT ![r] = "loop"]
    /\ pendings' = [pendings EXCEPT ![r] = <<>>]
    /\ job' = [job EXCEPT ![r] = [i \in 1..Len(Items(r)) |-> "none"]]
    /\ UNCHANGED <<entry, args, world, jsonFiles, dirFiles, dset, warned, idx, cur,
                   joined, raised, arrived, dirs, disk, createdBy, earlyWrite, plan>>

-----------------------------------------------------------------------------
(* save_wavs and write, for one file *)

Put(f, k, v) == [x \in (DOMAIN f) \cup {k} |-> IF x = k THEN v ELSE f[x]]

\* a mutant of SaveWavs: a failed save removes the output written so far
SaveWavs_rollback(r, filename, input_root, ok) ==
    LET path == OutputPath(filename, OutDir, input_root)
        mk == OutputMkdir(filename, OutDir, input_root)
        dirs1 == IF mk # <<>> THEN makedirs(dirs, mk) ELSE dirs
        target == normpath(path)
    IN  /\ ok => dirname(target) \in dirs1
        /\ dirs' = dirs1
        /\ disk' = IF ok THEN Put(disk, target, filename) ELSE <<>>
        /\ createdBy' = IF OutDir \notin dirs /\ OutDir \in dirs1
                        THEN createdBy \cup {r} ELSE createdBy
        /\ earlyWrite' = (earlyWrite \/ OutDir \notin dirs)

\* save_wavs for the one file of the batch, by participant r: the directory is
\* created first when input_root is set, then write() saves the file; ok is
\* whether torchaudio.save succeeds, which it cannot in a missing directory
SaveWavs(r, filename, input_root, ok) ==
    LET path == OutputPath(filename, OutDir, input_root)
        mk == OutputMkdir(filename, OutDir, input_root)
        dirs1 == IF mk # <<>> THEN makedirs(dirs, mk) ELSE dirs
        target == normpath(path)
    IN  /\ ok => dirname(target) \in dirs1
        /\ dirs' = dirs1
        /\ disk' = IF ok THEN Put(disk, target, filename) ELSE disk
        /\ createdBy' = IF OutDir \notin dirs /\ OutDir \in dirs1
                        THEN createdBy \cup {r} ELSE createdBy
        /\ earlyWrite' = (earlyWrite \/ OutDir \notin dirs)

-----------------------------------------------------------------------------
(* The for loop over the loader *)

\* a mutant of Raise: the exception is noted and the loop goes on
Raise_continue(r, e) ==
    /\ raised' = [raised EXCEPT ![r] = e]
    /\ pc' = [pc EXCEPT ![r] = "loop"]

\* an exception leaves the loop or the drain, and with it the with block
Raise(r, e) ==
    /\ raised' = [raised EXCEPT ![r] = e]
    /\ pc' = [pc EXCEPT ![r] = "shutdown"]

\* the loader raises while yielding the next item
LoaderRaise(r) ==
    /\ pc[r] = "loop"
    /\ idx[r] < Len(Items(r))
    /\ Raise(r, [src |-> "loader", item |-> idx[r] + 1, kind |-> "IOError"])
    /\ UNCHANGED <<entry, args, world, jsonFiles, dirFiles, dset, warned, idx, cur, pendings,
                   job, joined, arrived, dirs, disk, createdBy, earlyWrite, plan>>

\* a mutant of Submit: the future is put at the head of the list
Submit_prepend(r) ==
    /\ pc[r] = "loop"
    /\ idx[r] < Len(Items(r))
    /\ UsePool(args)
    /\ idx' = [idx EXCEPT ![r] = idx[r] + 1]
    /\ pendings' = [pendings EXCEPT ![r] = <<idx[r] + 1>> \o pendings[r]]
    /\ job' = [job EXCEPT ![r][idx[r] + 1] = "queued"]
    /\ UNCHANGED <<entry, args, world, jsonFiles, dirFiles, pc, dset, warned, cur,
                   joined, raised, arrived, dirs, disk, createdBy, earlyWrite, plan>>

\* a mutant of Submit: the call waits for a free worker
Submit_blocking(r) ==
    /\ pc[r] = "loop"
    /\ idx[r] < Len(Items(r))
    /\ UsePool(args)
    /\ Cardinality(Busy(r)) < args.num_workers
    /\ idx' = [idx EXCEPT ![r] = idx[r] + 1]
    /\ pendings' = [pendings EXCEPT ![r] = Append(pendings[r], idx[r] + 1)]
    /\ job' = [job EXCEPT ![r][idx[r] + 1] = "queued"]
    /\ UNCHANGED <<entry, args, world, jsonFiles, dirFiles, pc, dset, warned, cur,
                   joined, raised, arrived, dirs, disk, createdBy, earlyWrite, plan>>

\* a mutant of Submit: the item is submitted twice
Submit_twice(r) ==
    /\ pc[r] = "loop"
    /\ idx[r] < Len(Items(r))
    /\ UsePool(args)
    /\ idx' = [idx EXCEPT ![r] = idx[r] + 1]
    /\ pendings' = [pendings EXCEPT ![r] = pendings[r] \o <<idx[r] + 1, idx[r] + 1>>]
    /\ job' = [job EXCEPT ![r][idx[r] + 1] = "queued"]
    /\ UNCHANGED <<entry, args, world, jsonFiles, dirFiles, pc, dset, warned, cur,
                   joined, raised, arrived, dirs, disk, createdBy, earlyWrite, plan>>

\* pendings.append(pool.submit(_estimate_and_save, ...)): the call returns at once
Submit(r) ==
    /\ pc[r] = "loop"
    /\ idx[r] < Len(Items(r))
    /\ UsePool(args)
    /\ idx' = [idx EXCEPT ![r] = idx[r] + 1]
    /\ pendings' = [pendings EXCEPT ![r] = Append(pendings[r], idx[r] + 1)]
    /\ job' = [job EXCEPT ![r][idx[r] + 1] = "queued"]
    /\ UNCHANGED <<entry, args, world, jsonFiles, dirFiles, pc, dset, warned, cur,
                   joined, raised, arrived, dirs, disk, createdBy, earlyWrite, plan>>

\* the else branch: the item is handled by the coordinator itself
TakeInline(r) ==
    /\ pc[r] = "loop"
    /\ idx[r] < Len(Items(r))
    /\ ~UsePool(args)
    /\ idx' = [idx EXCEPT ![r] = idx[r] + 1]
    /\ cur' = [cur EXCEPT ![r] = "estimate"]
    /\ pc' = [pc EXCEPT ![r] = "inline"]
    /\ UNCHANGED <<entry, args, world, jsonFiles, dirFiles, dset, warned, pendings,
                   job, joined, raised, arrived, dirs, disk, createdBy, earlyWrite, plan>>

\* estimate = get_estimate(model, noisy_signals, args), which may raise
InlineEstimate(r) ==
    /\ pc[r] = "inline"
    /\ cur[r] = "estimate"
    /\ \E ok \in BOOLEAN :
        IF ok
        THEN /\ cur' = [cur EXCEPT ![r] = "save"]
             /\ UNCHANGED <<pc, raised>>
        ELSE /\ cur' = [cur EXCEPT ![r] = "none"]
             /\ Raise(r, [src |-> "inline", item |-> idx[r], kind |-> "InferenceError"])
    /\ UNCHANGED <<entry, args, world, jsonFiles, dirFiles, dset, warned, idx, pendings,
                   job, joined, arrived, dirs, disk, createdBy, earlyWrite, plan>>

\* save_wavs(estimate, ...) in the coordinator, which may raise
InlineSave(r) ==
    /\ pc[r] = "inline"
    /\ cur[r] = "save"
    /\ \E ok \in BOOLEAN :
        /\ SaveWavs(r, Items(r)[idx[r]], InputRootInline(args), ok)
        /\ cur' = [cur EXCEPT ![r] = "none"]
        /\ IF ok
           THEN /\ pc' = [pc EXCEPT ![r] = "loop"]
                /\ UNCHANGED raised
           ELSE Raise(r, [src |-> "inline", item |-> idx[r], kind |-> "IOError"])
    /\ UNCHANGED <<entry, args, world, jsonFiles, dirFiles, dset, warned, idx, pendings,
                   job, joined, arrived, plan>>

\* the loader is exhausted: drain the pending list if there is one
LoopEnd(r) ==
    /\ pc[r] = "loop"
    /\ idx[r] = Len(Items(r))
    /\ pc' = [pc EXCEPT ![r] = IF pendings[r] # <<>> THEN "drain" ELSE "shutdown"]
    /\ UNCHANGED <<entry, args, world, jsonFiles, dirFiles, dset, warned, idx, cur, pendings,
                   job, joined, raised, arrived, dirs, disk, createdBy, earlyWrite, plan>>

-----------------------------------------------------------------------------
(* The worker pool: ProcessPoolExecutor(args.num_workers) running _estimate_and_save *)

\* a mutant of MayStart: the pool starts a process for every queued job
MayStart_nolimit(r, i) ==
    /\ job[r][i] = "queued"
    /\ \A j \in 1..(i - 1) : job[r][j] # "queued"

\* a free worker process takes the oldest queued job
MayStart(r, i) ==
    /\ job[r][i] = "queued"
    /\ \A j \in 1..(i - 1) : job[r][j] # "queued"
    /\ Cardinality(Busy(r)) < args.num_workers

JobStart(r, i) ==
    /\ MayStart(r, i)
    /\ job' = [job EXCEPT ![r][i] = "running"]
    /\ UNCHANGED <<entry, args, world, jsonFiles, dirFiles, pc, dset, warned, idx, cur, pendings,
                   joined, raised, arrived, dirs, disk, createdBy, earlyWrite, plan>>

\* _estimate_and_save: estimate = get_estimate(...), which may raise in the worker
JobEstimate(r, i) ==
    /\ job[r][i] = "running"
    /\ \E ok \in BOOLEAN :
        job' = [job EXCEPT ![r][i] = IF ok THEN "estimated" ELSE "failed_estimate"]
    /\ UNCHANGED <<entry, args, world, jsonFiles, dirFiles, pc, dset, warned, idx, cur, pendings,
                   joined, raised, arrived, dirs, disk, createdBy, earlyWrite, plan>>

\* _estimate_and_save: save_wavs(...), which may raise in the worker
JobSave(r, i) ==
    /\ job[r][i] = "estimated"
    /\ \E ok \in BOOLEAN :
        /\ SaveWavs(r, Items(r)[i], InputRoot(args), ok)
        /\ job' = [job EXCEPT ![r][i] = IF ok THEN "done" ELSE "failed_save"]
    /\ UNCHANGED <<entry, args, world, jsonFiles, dirFiles, pc, dset, warned, idx, cur, pendings,
                   joined, raised, arrived, plan>>

-----------------------------------------------------------------------------
(* The drain and the exit of the with block *)

\* the exception result() re-raises for the job of item i
JobError(r, i) ==
    [src |-> "job", item |-> i,
     kind |-> IF job[r][i] = "failed_estimate" THEN "InferenceError" ELSE "IOError"]

\* a mutant of NextPending: the list is joined from its end
NextPending_reversed(r) == pendings[r][Len(pendings[r]) - joined[r]]

\* the future the drain loop is at
NextPending(r) == pendings[r][joined[r] + 1]

\* pending.result(): waits for the job, returns or re-raises its exception
Join(r) ==
    /\ pc[r] = "drain"
    /\ joined[r] < Len(pendings[r])
    /\ LET i == NextPending(r)
       IN  /\ job[r][i] \in Finished
           /\ IF job[r][i] = "done"
              THEN /\ joined' = [joined EXCEPT ![r] = joined[r] + 1]
                   /\ UNCHANGED <<pc, raised>>
              ELSE /\ Raise(r, JobError(r, i))
                   /\ UNCHANGED joined
    /\ UNCHANGED <<entry, args, world, jsonFiles, dirFiles, dset, warned, idx, cur, pendings,
                   job, arrived, dirs, disk, createdBy, earlyWrite, plan>>

\* a mutant of DrainComplete: the drain stops before the last future
DrainComplete_short(r) == joined[r] + 1 >= Len(pendings[r])

\* the drain loop has gone through the whole list
DrainComplete(r) == joined[r] = Len(pendings[r])

DrainEnd(r) ==
    /\ pc[r] = "drain"
    /\ DrainComplete(r)
    /\ pc' = [pc EXCEPT ![r] = "shutdown"]
    /\ UNCHANGED <<entry, args, world, jsonFiles, dirFiles, dset, warned, idx, cur, pendings,
                   job, joined, raised, arrived, dirs, disk, createdBy, earlyWrite, plan>>

\* a mutant of PoolIdle: the exit does not wait for running jobs
PoolIdle_nowait(r) == TRUE

\* ProcessPoolExecutor.__exit__ is shutdown(wait=True): it returns when every
\* submitted job has run
PoolIdle(r) == Unfinished(r) = {}

\* the with block is left: enhance returns, or the exception leaves it
PoolExit(r) ==
    /\ pc[r] = "shutdown"
    /\ PoolIdle(r)
    /\ pc' = [pc EXCEPT ![r] = IF raised[r] = NoError THEN "done" ELSE "raised"]
    /\ UNCHANGED <<entry, args, world, jsonFiles, dirFiles, dset, warned, idx, cur, pendings,
                   job, joined, raised, arrived, dirs, disk, createdBy, earlyWrite, plan>>

-----------------------------------------------------------------------------
(* The run *)

Next ==
    \/ \E r \in Ranks : ParseArgs(r)
    \/ \E r \in Ranks : LoadDataset(r)
    \/ \E r \in Ranks : MakeOutDir(r)
    \/ \E r \in Ranks : BarrierArrive(r)
    \/ \E r \in Ranks : BarrierPass(r)
    \/ \E r \in Ranks : LoaderRaise(r)
    \/ \E r \in Ranks : Submit(r)
    \/ \E r \in Ranks : TakeInline(r)
    \/ \E r \in Ranks : InlineEstimate(r)
    \/ \E r \in Ranks : InlineSave(r)
    \/ \E r \in Ranks : LoopEnd(r)
    \/ \E r \in Ranks : \E i \in DOMAIN job[r] : JobStart(r, i)
    \/ \E r \in Ranks : \E i \in DOMAIN job[r] : JobEstimate(r, i)
    \/ \E r \in Ranks : \E i \in DOMAIN job[r] : JobSave(r, i)
    \/ \E r \in Ranks : Join(r)
    \/ \E r \in Ranks : DrainEnd(r)
    \/ \E r \in Ranks : PoolExit(r)

\* one process, not distributed
Spec == Init /\ [][Next]_vars

\* a distributed run of two participants
InitDist == InitRun(2)

SpecDist == InitDist /\ [][Next]_vars

-----------------------------------------------------------------------------
(* Path planning on its own: save_wavs applied to drawn file names *)

Alphabet == {"a", "b", DOT, SEP}

\* a path that can name a file: its last component is a name
NamesFile(p) == basename(p) \notin {<<>>, <<DOT>>, <<DOT, DOT>>}

\* the file names drawn: Root, a separator and up to MaxTail characters
PathInputs ==
    {p \in {Root \o <<SEP>> \o t : t \in UNION {[1..n -> Alphabet] : n \in 1..MaxTail}} :
        NamesFile(p)}

InitPath ==
    /\ plan \in [stage : {"input"}, f1 : PathInputs, f2 : PathInputs,
                 root : {None, Root}, out1 : {<<>>}, out2 : {<<>>}]
    /\ entry = "api"
    /\ args = [device |-> "cpu", num_workers |-> 1, noisy_dir |-> plan.root, noisy_json |-> None]
    /\ world = 1
    /\ jsonFiles = <<>>
    /\ dirFiles = <<>>
    /\ pc = [r \in Ranks |-> "plan"]
    /\ dset = [r \in Ranks |-> [isNone |-> TRUE, files |-> <<>>]]
    /\ warned = [r \in Ranks |-> FALSE]
    /\ idx = [r \in Ranks |-> 0]
    /\ cur = [r \in Ranks |-> "none"]
    /\ pendings = [r \in Ranks |-> <<>>]
    /\ job = [r \in Ranks |-> <<>>]
    /\ joined = [r \in Ranks |-> 0]
    /\ raised = [r \in Ranks |-> NoError]
    /\ arrived = {}
    /\ dirs = {<<SEP>>}
    /\ disk = <<>>
    /\ createdBy = {}
    /\ earlyWrite = FALSE

\* save_wavs computes the output path of each of the two files
PlanPaths ==
    /\ plan.stage = "input"
    /\ plan' = [plan EXCEPT !.stage = "planned",
                            !.out1 = OutputPath(plan.f1, OutDir, plan.root),
                            !.out2 = OutputPath(plan.f2, OutDir, plan.root)]
    /\ UNCHANGED <<entry, args, world, jsonFiles, dirFiles, pc, dset, warned, idx, cur, pendings,
                   job, joined, raised, arrived, dirs, disk, createdBy, earlyWrite>>

NextPath == PlanPaths

SpecPath == InitPath /\ [][NextPath]_vars

-----------------------------------------------------------------------------
(* The layout the specification describes, stated on path components *)

\* the file is located under the directory: its components extend the directory's
Under(f, root) ==
    LET c == AbsComps(f)
        d == AbsComps(root)
    IN  Len(c) > Len(d) /\ SubSeq(c, 1, Len(d)) = d

\* a name with its extension replaced by .wav: the extension is the part from the
\* last dot on, when the name has a character other than a dot before it
RefReplaceExt(name) ==
    LET E == {i \in 1..Len(name) :
                /\ name[i] = DOT
                /\ \A j \in (i + 1)..Len(name) : name[j] # DOT
                /\ \E k \in 1..(i - 1) : name[k] # DOT}
    IN  (IF E = {} THEN name ELSE SubSeq(name, 1, (CHOOSE i \in E : TRUE) - 1)) \o WAV

\* a component list with the extension of its last component replaced
RefReplaceLast(comps) ==
    [k \in 1..Len(comps) |-> IF k = Len(comps) THEN RefReplaceExt(comps[k]) ELSE comps[k]]

\* the path relative to root, extension replaced
RefRel(f, root) == RefReplaceLast(SplitOn(relpath(f, root), SEP))

\* the reference layout: out_dir, then the relative path (input_root set) or the
\* last component (input_root unset), extension replaced
RefLayout(f, out_dir, root) ==
    LET comps == SplitOn(f, SEP)
    IN  out_dir \o <<SEP>> \o
        JoinOn(IF root # None THEN RefRel(f, root)
               ELSE RefReplaceLast(<<comps[Len(comps)]>>))

-----------------------------------------------------------------------------
(* Claims about save_wavs *)

\* C8: for a fixed out_dir and input_root, two distinct input file names located
\* under input_root get the same output path only if their paths relative to
\* input_root are equal once the extension is replaced by .wav.
C8_CollideOnlyIfSameRel ==
    (/\ plan.stage = "planned"
     /\ plan.root # None
     /\ plan.f1 # plan.f2
     /\ Under(plan.f1, plan.root)
     /\ Under(plan.f2, plan.root)
     /\ plan.out1 = plan.out2)
    => RefRel(plan.f1, plan.root) = RefRel(plan.f2, plan.root)

\* C8 witness: two distinct files under input_root, of different file names,
\* have been planned onto one output path.
C8_Witness ==
    /\ plan.stage = "planned"
    /\ plan.root # None
    /\ Under(plan.f1, plan.root)
    /\ Under(plan.f2, plan.root)
    /\ AbsComps(plan.f1) # AbsComps(plan.f2)
    /\ plan.out1 = plan.out2

\* C9: the output path save_wavs computes equals the reference layout for every
\* input, with input_root set (relative path, extension replaced by .wav) and
\* with input_root unset (basename, extension replaced by .wav).
C9_MatchesReference ==
    plan.stage = "planned" => plan.out1 = RefLayout(plan.f1, OutDir, plan.root)

-----------------------------------------------------------------------------
(* Claims about the run *)

Pooled == args.device = "cpu" /\ args.num_workers > 1
BothSet == args.noisy_dir # None /\ args.noisy_json # None
NeitherSet == args.noisy_dir = None /\ args.noisy_json = None

\* the file an item's estimate is written to, by its job or inline
Target(r, i) ==
    normpath(OutputPath(Items(r)[i], OutDir,
                        IF Pooled THEN InputRoot(args) ELSE InputRootInline(args)))

\* C1 as stated: in pooled mode, once the job of item k has failed, no estimate
\* is computed and no output file is written for an item enumerated after k.
C1_LaterItemsNeverProcessed ==
    [][\A r \in Ranks : \A k, j \in DOMAIN job[r] :
        (job[r][k] \in Failed /\ j > k)
        => (job'[r][j] = job[r][j] \/ job'[r][j] \notin {"estimated", "done"})]_vars

\* C1 as amended: in pooled mode a failing job of item k stops nothing: when
\* enhance leaves with that failure, every item after k has been submitted and
\* its job has run to its end.
C1_LaterItemsStillProcessed ==
    \A r \in Ranks :
        (pc[r] = "raised" /\ raised[r].src = "job")
        => /\ Len(pendings[r]) = Len(Items(r))
           /\ \A j \in DOMAIN job[r] : j > raised[r].item => job[r][j] \in Finished

\* C1 witness: enhance has left with the failure of job 1 and the output of a
\* later item is on disk.
C1_Witness ==
    /\ pc[0] = "raised"
    /\ raised[0].src = "job"
    /\ raised[0].item = 1
    /\ Len(Items(0)) >= 2
    /\ job[0][2] = "done"
    /\ Target(0, 2) \in DOMAIN disk

\* C2: the drain joins the pending jobs in submission order; if a submitted job
\* failed, enhance raises the failure of the earliest-submitted failing job and
\* retrieves the result of no job submitted after it.
C2_DrainRaisesEarliestFailure ==
    \A r \in Ranks :
        /\ (pc[r] \in {"shutdown", "raised"} /\ raised[r].src = "job")
           => LET k == raised[r].item
              IN  /\ k \in DOMAIN job[r]
                  /\ job[r][k] \in Failed
                  /\ raised[r].kind = (IF job[r][k] = "failed_estimate"
                                       THEN "InferenceError" ELSE "IOError")
                  /\ \A j \in 1..(k - 1) : job[r][j] = "done"
                  /\ joined[r] = k - 1
        /\ pc[r] = "drain" => \A j \in 1..joined[r] : job[r][pendings[r][j]] = "done"
        /\ pc[r] = "done" => \A j \in DOMAIN job[r] : job[r][j] \notin Failed

\* C2 witness: two jobs failed, and enhance has raised the failure of the
\* earlier one after joining the job before it.
C2_Witness ==
    /\ pc[0] = "raised"
    /\ raised[0].src = "job"
    /\ raised[0].item = 2
    /\ Len(Items(0)) >= 3
    /\ job[0][3] \in Failed

\* C3: enhance never returns normally while a job it submitted is unjoined: at
\* a normal return the result of every submitted job has been retrieved.
C3_DoneImpliesAllJoined ==
    \A r \in Ranks :
        pc[r] = "done"
        => /\ joined[r] = Len(pendings[r])
           /\ \A i \in DOMAIN job[r] :
                job[r][i] # "none" => \E j \in 1..joined[r] : pendings[r][j] = i

\* C3 witness: a normal return after the results of several jobs were retrieved.
C3_Witness ==
    /\ pc[0] = "done"
    /\ Len(pendings[0]) >= 2
    /\ joined[0] = Len(pendings[0])

\* C4: every item is submitted to the pool exactly when device is cpu and
\* num_workers > 1; otherwise it is estimated and written by the coordinator
\* before the next item is taken, and no job is ever submitted in that run.
C4_DispatchMode ==
    \A r \in Ranks :
        IF Pooled
        THEN /\ pc[r] # "inline" /\ cur[r] = "none"
             /\ pendings[r] = [i \in 1..idx[r] |-> i]
             /\ \A i \in DOMAIN job[r] : i <= idx[r] <=> job[r][i] # "none"
             /\ pc[r] = "drain" => idx[r] = Len(Items(r))
        ELSE /\ pendings[r] = <<>>
             /\ \A i \in DOMAIN job[r] : job[r][i] = "none"
             /\ pc[r] = "loop" => \A i \in 1..idx[r] : Target(r, i) \in DOMAIN disk
             /\ pc[r] = "inline" => \A i \in 1..(idx[r] - 1) : Target(r, i) \in DOMAIN disk

\* C4 witness: an accelerator run with several workers has written two items
\* inline, one after the other, and returned.
C4_Witness ==
    /\ args.device = "cuda"
    /\ args.num_workers > 1
    /\ pc[0] = "done"
    /\ idx[0] >= 2
    /\ \A i \in 1..idx[0] : Target(0, i) \in DOMAIN disk

\* C5: with neither noisy_dir nor noisy_json set, enhance returns without
\* raising after a warning: no item is dispatched, no job submitted, no file
\* written, out_dir is not created and the barrier is not entered.
C5_NoInputSkipsRun ==
    NeitherSet =>
        /\ disk = <<>>
        /\ OutDir \notin dirs
        /\ arrived = {}
        /\ \A r \in Ranks :
            /\ pc[r] \in {"main", "enhance", "done"}
            /\ raised[r] = NoError
            /\ idx[r] = 0
            /\ pendings[r] = <<>>
            /\ pc[r] = "done" => warned[r]

\* C5 witness: a run with no input source has returned, warned.
C5_Witness ==
    /\ NeitherSet
    /\ pc[0] = "done"
    /\ warned[0]

\* C7 as stated: in pooled mode no two jobs submitted in a run target the same
\* output file.
C7_JobsTargetDistinctPaths ==
    \A r \in Ranks : \A i, j \in DOMAIN job[r] :
        (Pooled /\ i # j /\ job[r][i] # "none" /\ job[r][j] # "none")
        => Target(r, i) # Target(r, j)

\* the items of r whose output path, by the layout, is that of no other item
SoleWriter(r, i) ==
    \A j \in 1..Len(Items(r)) :
        j # i => RefLayout(Items(r)[j], OutDir, InputRoot(args))
                 # RefLayout(Items(r)[i], OutDir, InputRoot(args))

\* C7 as amended: in pooled mode, a job whose output path (out_dir with the
\* relative path, or the basename, extension replaced by .wav) is that of no
\* other item of the run is the only job writing that file, and once enhance
\* has returned the file holds that item's estimate whatever the order in
\* which the jobs completed; items whose names map to one path share the file.
C7_SoleWriterContent ==
    \A r \in Ranks :
        (Pooled /\ pc[r] = "done")
        => \A i \in 1..Len(Items(r)) :
            /\ Target(r, i) \in DOMAIN disk
            /\ SoleWriter(r, i)
               => /\ normpath(RefLayout(Items(r)[i], OutDir, InputRoot(args))) \in DOMAIN disk
                  /\ disk[normpath(RefLayout(Items(r)[i], OutDir, InputRoot(args)))] = Items(r)[i]

\* C7 witness: a pooled run of three jobs has returned; one item has its output
\* file to itself and two share one.
C7_Witness ==
    /\ Pooled
    /\ pc[0] = "done"
    /\ Len(Items(0)) = 3
    /\ \E i \in 1..3 : SoleWriter(0, i)
    /\ \E i \in 1..3 : ~SoleWriter(0, i)

\* C10: with both noisy_dir and noisy_json set in the configuration passed to
\* enhance, the run ends at once with a configuration error: no item is
\* dispatched and no file is written.
C10_BothSetIsRejected ==
    BothSet =>
        /\ disk = <<>>
        /\ \A r \in Ranks : idx[r] = 0 /\ pc[r] \in {"main", "enhance", "usage_error"}

-----------------------------------------------------------------------------
(* Claims about the distributed run *)

AfterBarrier == {"loop", "inline", "drain", "shutdown", "done", "raised"}

\* C6: in a distributed run with a dataset, only the rank-0 participant creates
\* out_dir, every participant passes the barrier before it dispatches an item,
\* and no output write is attempted while out_dir does not exist.
C6_OutDirBeforeWrites ==
    (world > 1 /\ ~NeitherSet) =>
        /\ createdBy \subseteq {0}
        /\ ~earlyWrite
        /\ \A r \in Ranks :
            /\ (idx[r] > 0 \/ pc[r] \in AfterBarrier) => (arrived = Ranks /\ OutDir \in dirs)
            /\ pc[r] \notin AfterBarrier => (idx[r] = 0 /\ job[r] = <<>>)

\* C6 witness: in a run of two participants, rank 1 has written an output file
\* into the directory rank 0 created.
C6_Witness ==
    /\ world = 2
    /\ createdBy = {0}
    /\ pc[1] = "done"
    /\ idx[1] >= 1
    /\ Target(1, 1) \in DOMAIN disk
    /\ disk[Target(1, 1)] = Items(1)[1]

-----------------------------------------------------------------------------
(* write on its own: the normalisation of a drawn waveform *)

\* the 1 of max(wav.abs().max().item(), 1)
Clip == 1

Abs(x) == IF x < 0 THEN -x ELSE x

\* wav.abs().max().item(), in steps
Peak(wav) == CHOOSE m \in {Abs(wav[i]) : i \in 1..Len(wav)} :
                \A i \in 1..Len(wav) : Abs(wav[i]) <= m

\* a mutant of WriteDivisor: always the peak
WriteDivisor_peak(wav) == Peak(wav)

\* max(wav.abs().max().item(), 1), in steps
WriteDivisor(wav) ==
    IF Peak(wav) > Clip * Resolution THEN Peak(wav) ELSE Clip * Resolution

\* wav / max(...): each persisted sample is the fraction <<numerator, denominator>>
\* of its sample and the divisor, both in steps, so its amplitude is their quotient
Normalise(wav) == [i \in 1..Len(wav) |-> <<wav[i], WriteDivisor(wav)>>]

Waveforms == UNION {[1..n -> (-MaxAmp)..MaxAmp] : n \in 1..MaxSamples}

InitWrite ==
    /\ plan \in [stage : {"input"}, wav : Waveforms, out : {<<>>}]
    /\ entry = "api"
    /\ args = [device |-> "cpu", num_workers |-> 1, noisy_dir |-> None, noisy_json |-> None]
    /\ world = 1
    /\ jsonFiles = <<>>
    /\ dirFiles = <<>>
    /\ pc = [r \in Ranks |-> "write"]
    /\ dset = [r \in Ranks |-> [isNone |-> TRUE, files |-> <<>>]]
    /\ warned = [r \in Ranks |-> FALSE]
    /\ idx = [r \in Ranks |-> 0]
    /\ cur = [r \in Ranks |-> "none"]
    /\ pendings = [r \in Ranks |-> <<>>]
    /\ job = [r \in Ranks |-> <<>>]
    /\ joined = [r \in Ranks |-> 0]
    /\ raised = [r \in Ranks |-> NoError]
    /\ arrived = {}
    /\ dirs = {<<SEP>>}
    /\ disk = <<>>
    /\ createdBy = {}
    /\ earlyWrite = FALSE

\* write(wav, filename): the waveform is normalised and saved
WriteWave ==
    /\ plan.stage = "input"
    /\ plan' = [plan EXCEPT !.stage = "written", !.out = Normalise(plan.wav)]
    /\ UNCHANGED <<entry, args, world, jsonFiles, dirFiles, pc, dset, warned, idx, cur, pendings,
                   job, joined, raised, arrived, dirs, disk, createdBy, earlyWrite>>

NextWrite == WriteWave

SpecWrite == InitWrite /\ [][NextWrite]_vars

\* the largest sample magnitude of a waveform, in steps
PeakOf(wav) == CHOOSE m \in 0..MaxAmp :
                  /\ \E i \in 1..Len(wav) : Abs(wav[i]) = m
                  /\ \A i \in 1..Len(wav) : Abs(wav[i]) <= m

\* C11: no persisted sample exceeds 1 in absolute value: a waveform of peak
\* P > 1 is divided by P, so that its persisted peak is exactly 1, and a
\* waveform of peak <= 1 is persisted with its amplitude unchanged.
C11_PersistedPeakAtMostOne ==
    plan.stage = "written" =>
        LET wav == plan.wav
            out == plan.out
            P == PeakOf(wav)
        IN  /\ Len(out) = Len(wav)
            /\ \A i \in 1..Len(out) : out[i][2] > 0 /\ Abs(out[i][1]) <= out[i][2]
            /\ P > Resolution =>
                /\ \A i \in 1..Len(out) : out[i][1] * P = wav[i] * out[i][2]
                /\ \E i \in 1..Len(out) : Abs(out[i][1]) = out[i][2]
            /\ P <= Resolution =>
                \A i \in 1..Len(out) : out[i][1] * Resolution = wav[i] * out[i][2]

\* C11 witness: a waveform of peak above 1 was written, one of its samples at
\* the peak and another, not zero, below it.
C11_Witness ==
    /\ plan.stage = "written"
    /\ PeakOf(plan.wav) > Resolution
    /\ \E i, j \in 1..Len(plan.out) :
        /\ Abs(plan.out[i][1]) = plan.out[i][2]
        /\ plan.out[j][1] # 0
        /\ Abs(plan.out[j][1]) < plan.out[j][2]


-----------------------------------------------------------------------------
(* Claims about failures, ordering and the pool *)

\* C12 as stated: once a per-item failure has been detected by enhance, every
\* output file on disk stays on disk with the content it had.
C12_OutputsUnchangedAfterFailure ==
    [][(\E r \in Ranks : raised[r].src \in {"job", "inline"})
       => \A p \in DOMAIN disk : p \in DOMAIN disk' /\ disk'[p] = disk[p]]_vars

\* a step in which the estimate of an item of the run is saved to path p
SavedTo(p) ==
    \E r \in Ranks :
        \/ \E i \in DOMAIN job[r] :
            /\ job[r][i] = "estimated" /\ job'[r][i] = "done"
            /\ Target(r, i) = p /\ disk'[p] = Items(r)[i]
        \/ /\ pc[r] = "inline" /\ cur[r] = "save" /\ pc'[r] = "loop"
           /\ Target(r, idx[r]) = p /\ disk'[p] = Items(r)[idx[r]]

\* C12 as amended: no step of a run, failing or not, removes an output file,
\* and the content of a file changes only when the estimate of an item with
\* the same output path is saved over it, which in pooled mode a job still
\* running can do after the failure was detected.
C12_NoRollback ==
    [][/\ \A p \in DOMAIN disk : p \in DOMAIN disk' /\ (disk'[p] # disk[p] => SavedTo(p))
       /\ (\E r \in Ranks : raised[r] # NoError /\ ~Pooled) => disk' = disk]_vars

\* C12 witness: enhance has left with the failure of item 2 and the file
\* written for item 1 holds its estimate.
C12_Witness ==
    /\ pc[0] = "raised"
    /\ raised[0].src \in {"job", "inline"}
    /\ raised[0].item = 2
    /\ Target(0, 1) \in DOMAIN disk
    /\ disk[Target(0, 1)] = Items(0)[1]

\* C13: in pooled mode the k-th future of the pending list is the job of the
\* k-th item of the loader, and the drain retrieves the results from the head
\* of the list on: the jobs of items 1..joined are the ones joined, and a
\* failure is raised for the item after them.
C13_SubmissionOrder ==
    \A r \in Ranks :
        Pooled
        => /\ \A k \in DOMAIN pendings[r] : pendings[r][k] = k
           /\ joined[r] <= Len(pendings[r])
           /\ \A k \in 1..joined[r] : job[r][pendings[r][k]] = "done"
           /\ raised[r].src = "job" => raised[r].item = pendings[r][joined[r] + 1]

\* C13 witness: three jobs were submitted and the drain has joined the first two.
C13_Witness ==
    /\ Pooled
    /\ pc[0] = "drain"
    /\ Len(pendings[0]) >= 3
    /\ joined[0] = 2

\* C14: in pooled mode no result is retrieved before the last item has been
\* submitted, and while items remain the submission of the next one is
\* possible whatever the state of the workers and of the earlier jobs.
C14_SubmitNeverBlocks ==
    \A r \in Ranks :
        Pooled
        => /\ (joined[r] > 0 \/ pc[r] = "drain" \/ raised[r].src = "job")
              => idx[r] = Len(Items(r))
           /\ (pc[r] = "loop" /\ idx[r] < Len(Items(r))) => ENABLED Submit(r)

\* C14 witness: every worker is busy, items remain, and the next one can be
\* submitted.
C14_Witness ==
    /\ Pooled
    /\ pc[0] = "loop"
    /\ idx[0] < Len(Items(0))
    /\ Cardinality(Busy(0)) = args.num_workers
    /\ ENABLED Submit(0)

\* C15: at most num_workers jobs hold a worker at any moment; a submitted job
\* stays queued until it is started, and a queued job can start as soon as a
\* worker is free.
C15_BoundedPool ==
    \A r \in Ranks :
        /\ Cardinality(Busy(r)) <= args.num_workers
        /\ Pooled => \A i \in 1..idx[r] : job[r][i] # "none"
        /\ ((\E i \in DOMAIN job[r] : job[r][i] = "queued")
            /\ Cardinality(Busy(r)) < args.num_workers)
           => \E i \in DOMAIN job[r] : ENABLED JobStart(r, i)

\* C15 witness: num_workers jobs are executing and another one is queued.
C15_Witness ==
    /\ Pooled
    /\ Cardinality(Busy(0)) = args.num_workers
    /\ \E i \in DOMAIN job[0] : job[0][i] = "queued"

\* C16: the items taken from the loader so far are each consumed once: in
\* pooled mode the pending list holds one future per item taken, no item
\* twice, and nothing is estimated inline; in inline mode no job exists and
\* the item in hand is the last one taken.
C16_ConsumedOnce ==
    \A r \in Ranks :
        IF Pooled
        THEN /\ Len(pendings[r]) = idx[r]
             /\ \A j, k \in DOMAIN pendings[r] : pendings[r][j] = pendings[r][k] => j = k
             /\ \A i \in DOMAIN job[r] :
                    job[r][i] # "none" <=> \E k \in DOMAIN pendings[r] : pendings[r][k] = i
             /\ cur[r] = "none"
        ELSE /\ Len(pendings[r]) = 0
             /\ \A i \in DOMAIN job[r] : job[r][i] = "none"
             /\ cur[r] # "none" => (pc[r] = "inline" /\ idx[r] \in 1..Len(Items(r)))

\* C16 witness: a pooled run has returned with as many jobs as items.
C16_Witness ==
    /\ Pooled
    /\ pc[0] = "done"
    /\ Len(Items(0)) >= 2
    /\ Len(pendings[0]) = Len(Items(0))

\* C17: in inline mode a failure on item k leaves the loop at once, with k the
\* last item taken; the files on disk are those of items 1..k-1 and nothing
\* stands between the failure and the exit of enhance.
C17_InlineFailureStops ==
    \A r \in Ranks :
        (~Pooled /\ raised[r].src = "inline")
        => /\ pc[r] \in {"shutdown", "raised"}
           /\ idx[r] = raised[r].item
           /\ cur[r] = "none"
           /\ DOMAIN disk = {Target(r, i) : i \in 1..(raised[r].item - 1)}
           /\ \A p \in DOMAIN disk : \E i \in 1..(raised[r].item - 1) : disk[p] = Items(r)[i]
           /\ pc[r] = "shutdown" => ENABLED PoolExit(r)

\* C17 witness: an inline run of three items has left with the failure of
\* item 2, with item 1 written.
C17_Witness ==
    /\ ~Pooled
    /\ pc[0] = "raised"
    /\ raised[0].src = "inline"
    /\ raised[0].item = 2
    /\ Len(Items(0)) >= 3
    /\ DOMAIN disk = {Target(0, 1)}

\* C18: once enhance has exited in pooled mode, normally or by an exception,
\* every submitted job has succeeded or failed and no job can write any more.
C18_ExitAfterAllJobs ==
    \A r \in Ranks :
        (Pooled /\ pc[r] \in {"done", "raised"})
        => /\ \A i \in 1..idx[r] : job[r][i] \in Finished
           /\ \A i \in DOMAIN job[r] : ~ENABLED JobSave(r, i) /\ ~ENABLED JobStart(r, i)

\* C18 witness: enhance has left with an exception of the loader, raised
\* while a submitted job was outstanding, and that job has completed.
C18_Witness ==
    /\ Pooled
    /\ pc[0] = "raised"
    /\ raised[0].src = "loader"
    /\ raised[0].item >= 2
    /\ job[0][1] = "done"
    /\ Target(0, 1) \in DOMAIN disk

-----------------------------------------------------------------------------
(* Claims about the output set of a run *)

\* the input_root rule: noisy_dir when it is set, otherwise none
RuleRoot == IF args.noisy_dir # None THEN args.noisy_dir ELSE None

\* C19: a failure-free run ends with one and the same set of output files
\* whether it ran inline or pooled: for every item, the path save_wavs derives
\* from it with input_root = noisy_dir when set, otherwise none.
C19_ModesAgreeOnOutputs ==
    \A r \in Ranks :
        (pc[r] = "done" /\ ~dset[r].isNone)
        => DOMAIN disk = {normpath(OutputPath(Items(r)[i], OutDir, RuleRoot)) :
                            i \in 1..Len(Items(r))}

\* C19 witness: an inline run over a directory has returned, and an item in a
\* subdirectory was written to a path the basename rule would not give.
C19_Witness ==
    /\ ~Pooled
    /\ pc[0] = "done"
    /\ args.noisy_dir # None
    /\ \E i \in 1..Len(Items(0)) :
        /\ Target(0, i) \in DOMAIN disk
        /\ Target(0, i) # normpath(OutputPath(Items(0)[i], OutDir, None))

ExactlyOne == (args.noisy_dir # None) # (args.noisy_json # None)

\* C20: with exactly one of noisy_dir and noisy_json set, every file written
\* lies inside out_dir: the files of a noisy_dir run are under noisy_dir and
\* their relative paths have no parent-directory component, and a noisy_json
\* run writes out_dir joined with a name that has no separator.
C20_WritesInsideOutDir ==
    ExactlyOne
    => /\ \A p \in DOMAIN disk : Under(p, OutDir)
       /\ \A r \in Ranks : \A i \in 1..Len(Items(r)) :
            IF args.noisy_dir # None
            THEN /\ Under(Items(r)[i], args.noisy_dir)
                 /\ \A c \in DOMAIN SplitOn(relpath(Items(r)[i], args.noisy_dir), SEP) :
                        SplitOn(relpath(Items(r)[i], args.noisy_dir), SEP)[c] # <<DOT, DOT>>
            ELSE /\ Find(From(OutputPath(Items(r)[i], OutDir, None), Len(OutDir) + 2), SEP) = 0
                 /\ SubSeq(OutputPath(Items(r)[i], OutDir, None), 1, Len(OutDir) + 1)
                        = OutDir \o <<SEP>>

\* C20 witness: a directory run with an item in a subdirectory and a manifest
\* run with an item outside the directory have written inside out_dir.
C20_Witness ==
    /\ ExactlyOne
    /\ pc[0] = "done"
    /\ \E i \in 1..Len(Items(0)) :
        /\ Len(SplitOn(Items(0)[i], SEP)) > 3 \/ ~Under(Items(0)[i], Root)
        /\ Target(0, i) \in DOMAIN disk

====
